---- MODULE Spec2Model ----
(***************************************************************************)
(* Variable-selection procedures of src/utils/functions.py:                *)
(* forward_selection, backward_selection_aic, stepwise_selection_both and  *)
(* backward_selection_pvalue.                                              *)
(*                                                                         *)
(* The OLS fit is an external capability.  A fitted model is identified by *)
(* the set of predictor terms of its formula; its AIC is aic[terms] and    *)
(* the p-value of term v is pvalues[<<terms, v>>], two arbitrary tables    *)
(* chosen in Init and never changed (the fit is a pure function of the     *)
(* formula and the data).  P-values are counted in hundredths              *)
(* (0.01 is 1, 0.05 is 5, 1.0 is 100); AIC values are small integers, of   *)
(* which the code only uses the order.                                     *)
(***************************************************************************)
EXTENDS Integers, Sequences, FiniteSets

VARIABLES
    fn,              \* the function that was called
    columns,         \* data.columns without the response, in column order
    aic,             \* the fit's AIC, by predictor set
    pvalues,         \* the fit's p-values, by <<predictor set, term>>
    initial_list,    \* stepwise_selection_both's initial_list
    level,           \* significance_level (forward) or alpha (backward p-value)
    pc,              \* "start", "loop", "done" (returned) or "raised"
    selected_vars,   \* selected_vars (forward, stepwise)
    remaining_vars,  \* remaining_vars
    best_model,      \* the predictor set of model / current_model / best_model
    best_aic,        \* current_aic / best_aic
    improved,        \* changed (forward) / improved (stepwise)
    removed,         \* history: variables some committed round removed
    reincluded       \* history: variables included after having been removed

vars == <<fn, columns, aic, pvalues, initial_list, level, pc, selected_vars,
          remaining_vars, best_model, best_aic, improved, removed, reincluded>>

----------------------------------------------------------------------------
(* Bounds of the model *)

\* AIC values range over 0..MaxAic
MaxAic == 3

\* the datasets: no predictor column, one, two
Datasets == {<<>>, <<"x1">>, <<"x1", "x2">>}

\* p-values, in hundredths: below, at and above each default threshold
PValues == {0, 1, 3, 5, 7}

\* p-values of the termination check: below every threshold, above every threshold
GatePValues == {0, 7}

\* the values tried for significance_level and alpha, in hundredths
Levels == {1, 5}

AicValues == 0..MaxAic

----------------------------------------------------------------------------
(* Program constants, in hundredths *)

threshold_in == 1
threshold_out == 5

\* float('inf'): above every AIC
Inf == MaxAic + 1

\* the default 1.0 of best_pval_inclusion
DefaultPvalInclusion == 100

\* the default 0.0 of worst_var_pval
DefaultWorstPval == 0

----------------------------------------------------------------------------
(* Lists *)

SeqToSet(s) == {s[i] : i \in 1..Len(s)}

NoDuplicates(s) == \A i, j \in 1..Len(s) : s[i] = s[j] => i = j

\* [x for x in s if x != v]
Without(s, v) == SelectSeq(s, LAMBDA x : x # v)

\* the index of the first occurrence of v in s (0 when absent)
IndexOf(s, v) ==
    IF v \in SeqToSet(s)
    THEN CHOOSE i \in 1..Len(s) : s[i] = v /\ \A j \in 1..(i - 1) : s[j] # v
    ELSE 0

\* list.remove(v): drops the first occurrence only
ListRemove(s, v) ==
    LET i == IndexOf(s, v)
    IN  [k \in 1..(Len(s) - 1) |-> IF k < i THEN s[k] ELSE s[k + 1]]

\* all orders of a set, as lists
Orders(S) ==
    {s \in [1..Cardinality(S) -> S] : SeqToSet(s) = S}

----------------------------------------------------------------------------
(* The fit *)

\* the right-hand side the code joins with " + "; <<"1">> is the literal "1"
InterceptOnly == <<"1">>

\* smf.ols(formula).fit(): a formula whose right-hand side is the empty
\* string does not parse, the fit raises
FitRaises(rhs) == rhs = <<>>

\* the fitted model: the set of its predictor terms (repeated terms are one term)
OlsFit(rhs) == SeqToSet(rhs) \ {"1"}

\* the pairs <<predictor set, term of it>> over the columns C
Terms(C) == {p \in (SUBSET C) \X C : p[2] \in p[1]}

AicOf(rhs) == aic[OlsFit(rhs)]

\* model.pvalues[v] of the fit of rhs
PvalOf(rhs, v) == pvalues[<<OlsFit(rhs), v>>]

\* the index sort(key=...)[0] picks: the first entry of s with the least key,
\* key being a function on the entries of s
\* (list.sort is stable)
FirstMin(s, key) ==
    CHOOSE i \in 1..Len(s) :
        /\ \A j \in 1..Len(s) : key[s[j]] >= key[s[i]]
        /\ \A j \in 1..(i - 1) : key[s[j]] > key[s[i]]

\* the index pvals.idxmax() picks: the first entry of s with the greatest key
FirstMax(s, key) ==
    CHOOSE i \in 1..Len(s) :
        /\ \A j \in 1..Len(s) : key[s[j]] <= key[s[i]]
        /\ \A j \in 1..(i - 1) : key[s[j]] < key[s[i]]

----------------------------------------------------------------------------
(* The call: the function, its dataset, the fit's tables and its arguments *)

Functions == {"forward", "backward_aic", "stepwise", "backward_pvalue"}

UsesAic(f) == f \in {"backward_aic", "stepwise"}
UsesPvalues(f) == f \in {"forward", "stepwise", "backward_pvalue"}

\* the initial_list arguments tried: every list of at most two columns of the
\* dataset, a column named twice included (None behaves as the empty list)
InitialLists(C) ==
    {<<>>} \cup {<<a>> : a \in C} \cup {<<a, b>> : a \in C, b \in C}

\* the states a call starts in, the p-values of the fit drawn from P
Calls(P) ==
    /\ fn \in Functions
    /\ columns \in Datasets
    /\ aic \in [SUBSET SeqToSet(columns) ->
                    IF UsesAic(fn) THEN AicValues ELSE {0}]
    /\ pvalues \in [Terms(SeqToSet(columns)) ->
                    IF UsesPvalues(fn) THEN P ELSE {0}]
    /\ initial_list \in
           IF fn = "stepwise" THEN InitialLists(SeqToSet(columns)) ELSE {<<>>}
    /\ level \in IF fn \in {"forward", "backward_pvalue"} THEN Levels ELSE {0}
    /\ pc = "start"
    /\ selected_vars = <<>>
    /\ remaining_vars = <<>>
    /\ best_model = {}
    /\ best_aic = 0
    /\ improved = FALSE
    /\ removed = {}
    /\ reincluded = {}

Init == Calls(PValues)

\* the calls of the termination check: every p-value test can pass or fail
FairInit == Calls(GatePValues)

Inputs == <<fn, columns, aic, pvalues, initial_list, level>>
History == <<removed, reincluded>>

----------------------------------------------------------------------------
(* forward_selection *)

\* the formula of a candidate: selected_vars + [candidate]
ForwardFormula(sel, candidate) == Append(sel, candidate)

\* the formula of the final model: "1" when nothing was selected
ForwardFinalFormula(sel) == IF sel # <<>> THEN sel ELSE InterceptOnly

\* a variant of ForwardAccept that admits a p-value equal to the level
ForwardAcceptLoose(best_pval, significance_level) ==
    best_pval <= significance_level

\* if best_pval < significance_level
ForwardAccept(best_pval, significance_level) ==
    best_pval < significance_level

\* a variant of ForwardRemaining that leaves the candidate in remaining_vars
ForwardRemainingKept(rem, best_candidate) == rem

\* remaining_vars.remove(best_candidate)
ForwardRemaining(rem, best_candidate) == ListRemove(rem, best_candidate)

\* pvals.sort(...); pvals[0]: a candidate of least p-value; remaining_vars is
\* a set, so which of several least ones comes first is not determined
ForwardBest(sel, rem) ==
    {c \in SeqToSet(rem) :
        \A d \in SeqToSet(rem) :
            PvalOf(ForwardFormula(sel, d), d) >= PvalOf(ForwardFormula(sel, c), c)}

ForwardBegin ==
    /\ fn = "forward"
    /\ pc = "start"
    /\ remaining_vars' = columns
    /\ selected_vars' = <<>>
    /\ improved' = TRUE
    /\ pc' = "loop"
    /\ UNCHANGED <<Inputs, History, best_model, best_aic>>

ForwardRound ==
    /\ fn = "forward"
    /\ pc = "loop"
    /\ improved /\ Len(remaining_vars) > 0
    /\ \E best_candidate \in ForwardBest(selected_vars, remaining_vars) :
         LET best_pval ==
                 PvalOf(ForwardFormula(selected_vars, best_candidate), best_candidate)
         IN  IF ForwardAccept(best_pval, level)
             THEN /\ selected_vars' = Append(selected_vars, best_candidate)
                  /\ remaining_vars' = ForwardRemaining(remaining_vars, best_candidate)
                  /\ improved' = TRUE
             ELSE /\ improved' = FALSE
                  /\ UNCHANGED <<selected_vars, remaining_vars>>
    /\ UNCHANGED <<Inputs, History, pc, best_model, best_aic>>

ForwardFinish ==
    /\ fn = "forward"
    /\ pc = "loop"
    /\ ~(improved /\ Len(remaining_vars) > 0)
    /\ IF FitRaises(ForwardFinalFormula(selected_vars))
       THEN /\ pc' = "raised"
            /\ UNCHANGED best_model
       ELSE /\ pc' = "done"
            /\ best_model' = OlsFit(ForwardFinalFormula(selected_vars))
    /\ UNCHANGED <<Inputs, History, selected_vars, remaining_vars, best_aic, improved>>

----------------------------------------------------------------------------
(* backward_selection_aic *)

\* the full formula: ' + '.join(remaining_vars), whatever its length
BackAicFullFormula(rem) == rem

\* the formula without var: ' + '.join(vars_minus_one), whatever its length
BackAicTestFormula(rem, var) == Without(rem, var)

\* if best_aic < current_aic
BackAicAccept(aic_best, current_aic) == aic_best < current_aic

\* aic_values.sort(...); aic_values[0]
BackAicBest(rem) ==
    FirstMin(rem, [v \in SeqToSet(rem) |-> AicOf(BackAicTestFormula(rem, v))])

BackAicBegin ==
    /\ fn = "backward_aic"
    /\ pc = "start"
    /\ remaining_vars' = columns
    /\ IF FitRaises(BackAicFullFormula(columns))
       THEN /\ pc' = "raised"
            /\ UNCHANGED <<best_model, best_aic>>
       ELSE /\ pc' = "loop"
            /\ best_model' = OlsFit(BackAicFullFormula(columns))
            /\ best_aic' = AicOf(BackAicFullFormula(columns))
    /\ UNCHANGED <<Inputs, History, selected_vars, improved>>

BackAicRound ==
    /\ fn = "backward_aic"
    /\ pc = "loop"
    /\ IF \/ remaining_vars = <<>>
          \/ \E v \in SeqToSet(remaining_vars) :
                 FitRaises(BackAicTestFormula(remaining_vars, v))
       THEN \* a test fit raises, or aic_values[0] of an empty list does
            /\ pc' = "raised"
            /\ UNCHANGED <<remaining_vars, best_model, best_aic>>
       ELSE LET best_candidate == remaining_vars[BackAicBest(remaining_vars)]
                test == BackAicTestFormula(remaining_vars, best_candidate)
            IN  IF BackAicAccept(AicOf(test), best_aic)
                THEN /\ remaining_vars' = ListRemove(remaining_vars, best_candidate)
                     /\ best_aic' = AicOf(test)
                     /\ best_model' = OlsFit(test)
                     /\ pc' = "loop"
                ELSE /\ pc' = "done"
                     /\ UNCHANGED <<remaining_vars, best_model, best_aic>>
    /\ UNCHANGED <<Inputs, History, selected_vars, improved>>

----------------------------------------------------------------------------
(* backward_selection_pvalue *)

\* the full formula: ' + '.join(remaining_vars), whatever its length
BackPvalFullFormula(rem) == rem

\* the formula of a refit: "1" when no variable is left
BackPvalRefitFormula(rem) == IF rem # <<>> THEN rem ELSE InterceptOnly

\* a variant of BackPvalAccept that removes at a p-value equal to alpha
BackPvalAcceptLoose(worst_pval, alpha) == worst_pval >= alpha

\* if worst_pval > alpha
BackPvalAccept(worst_pval, alpha) == worst_pval > alpha

\* pvals.idxmax(): the terms of the model stand in formula order
BackPvalWorst(rem, model) == FirstMax(rem, [v \in SeqToSet(rem) |-> pvalues[<<model, v>>]])

BackPvalBegin ==
    /\ fn = "backward_pvalue"
    /\ pc = "start"
    /\ remaining_vars' = columns
    /\ IF FitRaises(BackPvalFullFormula(columns))
       THEN /\ pc' = "raised"
            /\ UNCHANGED best_model
       ELSE /\ pc' = "loop"
            /\ best_model' = OlsFit(BackPvalFullFormula(columns))
    /\ UNCHANGED <<Inputs, History, selected_vars, best_aic, improved>>

BackPvalRound ==
    /\ fn = "backward_pvalue"
    /\ pc = "loop"
    /\ IF best_model = {}
       THEN \* idxmax() of the empty p-value series raises
            /\ pc' = "raised"
            /\ UNCHANGED <<remaining_vars, best_model>>
       ELSE LET worst_feature == remaining_vars[BackPvalWorst(remaining_vars, best_model)]
                worst_pval == pvalues[<<best_model, worst_feature>>]
                rest == ListRemove(remaining_vars, worst_feature)
            IN  IF BackPvalAccept(worst_pval, level)
                THEN /\ remaining_vars' = rest
                     /\ best_model' = OlsFit(BackPvalRefitFormula(rest))
                     /\ pc' = "loop"
                ELSE /\ pc' = "done"
                     /\ UNCHANGED <<remaining_vars, best_model>>
    /\ UNCHANGED <<Inputs, History, selected_vars, best_aic, improved>>

----------------------------------------------------------------------------
(* stepwise_selection_both *)

\* the formula of the model on sel: "1" when sel is empty
StepwiseFormula(sel) == IF sel # <<>> THEN sel ELSE InterceptOnly

\* the formula of an inclusion candidate: selected_vars + [var]
StepwiseInclusionFormula(sel, var) == Append(sel, var)

\* the formula of a removal candidate: "1" when vars_minus_one is empty
StepwiseRemovalFormula(sel, var) ==
    IF Len(Without(sel, var)) = 0 THEN InterceptOnly ELSE Without(sel, var)

\* candidates_for_inclusion.sort(...)[0], as an index of remaining_vars
StepwiseBestInclusion(sel, rem) ==
    FirstMin(rem, [v \in SeqToSet(rem) |-> AicOf(StepwiseInclusionFormula(sel, v))])

\* candidates_for_removal.sort(...)[0], as an index of selected_vars
StepwiseBestRemoval(sel) ==
    FirstMin(sel, [v \in SeqToSet(sel) |-> AicOf(StepwiseRemovalFormula(sel, v))])

\* a variant of AicImproves that takes an equal AIC for an improvement
AicImprovesLoose(aic_test, aic_now) == aic_test <= aic_now

\* best_aic_inclusion < best_aic, best_aic_removal < best_aic
AicImproves(aic_test, aic_now) == aic_test < aic_now

\* a variant of DoInclusion without the p-value test
DoInclusionAicOnly(best_aic_inclusion, aic_now, best_pval_inclusion) ==
    AicImproves(best_aic_inclusion, aic_now)

\* do_inclusion, before the two flags are compared
DoInclusion(best_aic_inclusion, aic_now, best_pval_inclusion) ==
    /\ AicImproves(best_aic_inclusion, aic_now)
    /\ best_pval_inclusion < threshold_in

\* a variant of DoRemoval without the AIC test
DoRemovalPvalOnly(best_aic_removal, aic_now, worst_var_pval) ==
    worst_var_pval > threshold_out

\* do_removal, before the two flags are compared
DoRemoval(best_aic_removal, aic_now, worst_var_pval) ==
    /\ AicImproves(best_aic_removal, aic_now)
    /\ worst_var_pval > threshold_out

\* a variant of RemovalWins in which an equal drop favours the removal
RemovalWinsTie(aic_now, best_aic_removal, best_aic_inclusion) ==
    (aic_now - best_aic_removal) >= (aic_now - best_aic_inclusion)

\* both flags set: the removal wins when it lowers the AIC more
RemovalWins(aic_now, best_aic_removal, best_aic_inclusion) ==
    (aic_now - best_aic_removal) > (aic_now - best_aic_inclusion)

\* a variant of StepwiseRemainingAfterRemoval that forgets the removed variable
StepwiseRemainingForgets(rem, var) == rem

\* remaining_vars.append(best_candidate_removal)
StepwiseRemainingAfterRemoval(rem, var) == Append(rem, var)

StepwiseBegin ==
    /\ fn = "stepwise"
    /\ pc = "start"
    /\ selected_vars' = initial_list
    \* list(set(...)): the order of the list is not determined
    /\ remaining_vars' \in Orders(SeqToSet(columns) \ SeqToSet(initial_list))
    /\ IF FitRaises(StepwiseFormula(initial_list))
       THEN /\ pc' = "raised"
            /\ UNCHANGED <<best_model, best_aic, improved>>
       ELSE /\ pc' = "loop"
            /\ best_model' = OlsFit(StepwiseFormula(initial_list))
            /\ best_aic' = AicOf(StepwiseFormula(initial_list))
            /\ improved' = TRUE
    /\ UNCHANGED <<Inputs, History>>

StepwiseRound ==
    /\ fn = "stepwise"
    /\ pc = "loop"
    /\ improved
    /\ LET sel == selected_vars
           rem == remaining_vars
           hasInclusion == rem # <<>>
           best_candidate_inclusion ==
               IF hasInclusion THEN rem[StepwiseBestInclusion(sel, rem)] ELSE "None"
           inclusion == StepwiseInclusionFormula(sel, best_candidate_inclusion)
           best_aic_inclusion == IF hasInclusion THEN AicOf(inclusion) ELSE Inf
           best_pval_inclusion ==
               IF hasInclusion THEN PvalOf(inclusion, best_candidate_inclusion)
               ELSE DefaultPvalInclusion
           hasRemoval == sel # <<>>
           best_candidate_removal ==
               IF hasRemoval THEN sel[StepwiseBestRemoval(sel)] ELSE "None"
           removal == StepwiseRemovalFormula(sel, best_candidate_removal)
           best_aic_removal == IF hasRemoval THEN AicOf(removal) ELSE Inf
           \* var_pvalues: the terms of best_model, or {} when selected_vars is empty
           worst_var_pval ==
               IF hasRemoval /\ best_candidate_removal \in best_model
               THEN pvalues[<<best_model, best_candidate_removal>>]
               ELSE DefaultWorstPval
           inc0 == DoInclusion(best_aic_inclusion, best_aic, best_pval_inclusion)
           rem0 == DoRemoval(best_aic_removal, best_aic, worst_var_pval)
           both == inc0 /\ rem0
           do_inclusion ==
               inc0 /\ ~(both /\ RemovalWins(best_aic, best_aic_removal, best_aic_inclusion))
           do_removal ==
               rem0 /\ ~(both /\ ~RemovalWins(best_aic, best_aic_removal, best_aic_inclusion))
       IN  IF do_inclusion
           THEN /\ selected_vars' = Append(sel, best_candidate_inclusion)
                /\ remaining_vars' = ListRemove(rem, best_candidate_inclusion)
                /\ best_model' = OlsFit(inclusion)
                /\ best_aic' = best_aic_inclusion
                /\ improved' = TRUE
                /\ reincluded' =
                       IF best_candidate_inclusion \in removed
                       THEN reincluded \cup {best_candidate_inclusion}
                       ELSE reincluded
                /\ UNCHANGED removed
           ELSE IF do_removal
           THEN /\ selected_vars' = ListRemove(sel, best_candidate_removal)
                /\ remaining_vars' =
                       StepwiseRemainingAfterRemoval(rem, best_candidate_removal)
                /\ best_model' = OlsFit(removal)
                /\ best_aic' = best_aic_removal
                /\ improved' = TRUE
                /\ removed' = removed \cup {best_candidate_removal}
                /\ UNCHANGED reincluded
           ELSE /\ improved' = FALSE
                /\ UNCHANGED <<selected_vars, remaining_vars, best_model, best_aic,
                               History>>
    /\ UNCHANGED <<Inputs, pc>>

StepwiseReturn ==
    /\ fn = "stepwise"
    /\ pc = "loop"
    /\ ~improved
    /\ pc' = "done"
    /\ UNCHANGED <<Inputs, History, selected_vars, remaining_vars, best_model,
                   best_aic, improved>>

----------------------------------------------------------------------------

Next ==
    \/ ForwardBegin
    \/ ForwardRound
    \/ ForwardFinish
    \/ BackAicBegin
    \/ BackAicRound
    \/ BackPvalBegin
    \/ BackPvalRound
    \/ StepwiseBegin
    \/ StepwiseRound
    \/ StepwiseReturn

Spec == Init /\ [][Next]_vars

\* the calling thread runs the function to its end
FairSpec == FairInit /\ [][Next]_vars /\ WF_vars(Next)

----------------------------------------------------------------------------
(* Properties *)

Sel == SeqToSet(selected_vars)
Rem == SeqToSet(remaining_vars)
Cols == SeqToSet(columns)

\* the list the function returns beside the model
Returned ==
    IF fn \in {"forward", "stepwise"} THEN selected_vars ELSE remaining_vars

\* initial_list names columns of the dataset, none of them twice
ValidInitialList ==
    /\ NoDuplicates(initial_list)
    /\ SeqToSet(initial_list) \subseteq Cols

WellFormed(list) == SeqToSet(list) \subseteq Cols /\ NoDuplicates(list)

\* C1, as claimed: on every normal return the returned list holds only
\* non-response columns of the dataset and no name twice, whatever initial_list
\* stepwise_selection_both was given.
C1_ReturnedListWellFormed ==
    pc = "done" => WellFormed(Returned)

\* C1, amended: when initial_list (stepwise_selection_both) names non-response
\* columns and none of them twice, the predictor list of each of the four
\* functions holds only non-response columns and no name twice, at every point
\* of the search and so on every normal return.
C1_WellFormedForValidInitialList ==
    ValidInitialList => WellFormed(Returned)

\* C1, witness: stepwise_selection_both returned a list of two variables, one
\* given in initial_list and one it included.
C1_Witness ==
    /\ fn = "stepwise" /\ pc = "done"
    /\ ValidInitialList
    /\ Len(initial_list) = 1 /\ Len(selected_vars) = 2

\* C2, as claimed: a function never fails because the predictor set to fit is
\* empty (in this model nothing else makes a function raise): it fits the
\* intercept-only formula and goes on to return.
C2_EmptyPredictorSetNeverRaises ==
    pc # "raised"

\* the p-value forward_selection reads for candidate c: its own, in the fit of
\* the selected variables and c
ForwardP(c) == pvalues[<<Sel \cup {c}, c>>]

\* C3: in forward_selection, a round that appends a variable appends one
\* candidate, whose p-value is strictly below significance_level and at most
\* that of every candidate of the round; a round whose least candidate p-value
\* is >= significance_level appends nothing, and nothing is appended after it.
C3_ForwardAddsLeastPBelowLevel ==
    [][ (fn = "forward" /\ pc = "loop") =>
          /\ selected_vars' # selected_vars =>
                \E v \in Rem :
                    /\ selected_vars' = Append(selected_vars, v)
                    /\ ForwardP(v) < level
                    /\ \A c \in Rem : ForwardP(v) <= ForwardP(c)
          /\ (improved /\ Rem # {} /\ \A c \in Rem : ForwardP(c) >= level) =>
                selected_vars' = selected_vars /\ improved' = FALSE
          /\ ~improved => selected_vars' = selected_vars /\ pc' = "done"
      ]_vars

\* C3, witness: forward_selection added one variable, then stopped with a
\* candidate left whose p-value is not below significance_level.
C3_Witness ==
    /\ fn = "forward" /\ pc = "done"
    /\ Len(selected_vars) = 1 /\ Len(remaining_vars) = 1
    /\ \A c \in Rem : ForwardP(c) >= level

\* C4: in backward_selection_pvalue, the returned model is the fit of the
\* returned list and every predictor of the list has a p-value <= alpha in it;
\* a loop iteration after which the loop goes on removed exactly one variable,
\* one whose p-value in the current model is the greatest and is > alpha.
C4_BackPvalLeavesPAtMostAlpha ==
    [][ fn = "backward_pvalue" =>
          /\ pc' = "done" =>
                /\ best_model' = SeqToSet(remaining_vars')
                /\ \A v \in SeqToSet(remaining_vars') :
                       pvalues[<<best_model', v>>] <= level
          /\ (pc = "loop" /\ pc' = "loop") =>
                \E v \in Rem :
                    /\ remaining_vars' = ListRemove(remaining_vars, v)
                    /\ SeqToSet(remaining_vars') = Rem \ {v}
                    /\ best_model' = Rem \ {v}
                    /\ pvalues[<<best_model, v>>] > level
                    /\ \A c \in Rem : pvalues[<<best_model, c>>] <= pvalues[<<best_model, v>>]
      ]_vars

\* C4, witness: backward_selection_pvalue removed one of two variables and
\* returned the other.
C4_Witness ==
    /\ fn = "backward_pvalue" /\ pc = "done"
    /\ Len(columns) = 2 /\ Len(remaining_vars) = 1

\* the AIC backward_selection_aic gets for the removal of v: that of the
\* intercept-only model when v is the last variable
BackAicRemovalAic(v) == aic[Rem \ {v}]

\* C5, as claimed: in backward_selection_aic, a round in which some single
\* removal has an AIC strictly below current_aic commits one removal, of a
\* variable of least removal AIC, and sets current_aic to that strictly smaller
\* value; a round in which none has returns; the returned AIC is at most that
\* of the full model.
C5_BackAicRemovesWhileAicDrops ==
    [][ (fn = "backward_aic" /\ pc = "loop") =>
          IF \E v \in Rem : BackAicRemovalAic(v) < best_aic
          THEN \E v \in Rem :
                   /\ remaining_vars' = ListRemove(remaining_vars, v)
                   /\ best_aic' = BackAicRemovalAic(v)
                   /\ best_aic' < best_aic
                   /\ \A c \in Rem : BackAicRemovalAic(c) >= BackAicRemovalAic(v)
                   /\ best_model' = Rem \ {v}
                   /\ pc' = "loop"
          ELSE /\ pc' = "done"
               /\ remaining_vars' = remaining_vars
               /\ best_aic' = best_aic
               /\ best_aic' <= aic[Cols]
      ]_vars

\* what C6 says of one step of stepwise_selection_both
C6_Step ==
    fn = "stepwise" =>
        /\ pc' \in {"loop", "done"} =>
              /\ best_model' = SeqToSet(selected_vars')
              /\ best_aic' = aic[best_model']
        /\ pc = "loop" =>
              /\ best_aic' <= best_aic
              /\ \/ /\ selected_vars' = selected_vars
                    /\ remaining_vars' = remaining_vars
                    /\ best_aic' = best_aic
                 \/ /\ \E v \in Rem : selected_vars' = Append(selected_vars, v)
                    /\ best_aic' < best_aic
                 \/ /\ \E v \in Sel : selected_vars' = ListRemove(selected_vars, v)
                    /\ best_aic' < best_aic

\* C6, as claimed: in stepwise_selection_both best_aic never increases, a round
\* commits at most one action (one inclusion or one removal), each committed
\* action sets best_aic strictly below its previous value, and best_aic is the
\* AIC of best_model, the fit on exactly the current selected_vars.
C6_BestAicOfSelectedDecreases ==
    [][C6_Step]_vars

\* C6, amended: the same, when initial_list names no variable twice.
C6_BestAicDecreasesForValidInitialList ==
    [][ValidInitialList => C6_Step]_vars

\* C6, witness: a call with a valid initial_list committed a removal and an
\* inclusion and returned.
C6_Witness ==
    /\ fn = "stepwise" /\ pc = "done"
    /\ ValidInitialList
    /\ removed # {}
    /\ Sel \ SeqToSet(initial_list) # {}

\* what C7 says of one step of stepwise_selection_both
C7_Step ==
    (fn = "stepwise" /\ pc = "loop") =>
        /\ Len(selected_vars') < Len(selected_vars) =>
              \E v \in Sel :
                  /\ selected_vars' = ListRemove(selected_vars, v)
                  /\ v \in SeqToSet(remaining_vars')
                  /\ v \notin SeqToSet(selected_vars')
        \* a removed variable stays a candidate until it is included again
        /\ \A v \in removed' :
              v \in SeqToSet(remaining_vars') \/ v \in SeqToSet(selected_vars')

\* C7, as claimed: after any removal of stepwise_selection_both the removed
\* variable is in remaining_vars and not in selected_vars, and it is a candidate
\* in the later rounds.
C7_RemovedIsCandidateAgain ==
    [][C7_Step]_vars

\* C7, amended: the same, when initial_list names no variable twice.
C7_RemovedIsCandidateForValidInitialList ==
    [][ValidInitialList => C7_Step]_vars

\* C7, witness: a call with a valid initial_list removed a variable in one
\* round and included the same variable in a later round.
C7_Witness ==
    /\ fn = "stepwise"
    /\ ValidInitialList
    /\ reincluded # {}
    /\ reincluded \subseteq Sel

\* C8: stepwise_selection_both includes a variable only if its own p-value in
\* the fit of selected + variable is strictly below threshold_in and that fit's
\* AIC is strictly below best_aic; it removes a variable only if the variable's
\* p-value in the current best model is strictly above threshold_out and the
\* reduced fit's AIC is strictly below best_aic.  So a p-value of 0.03 (3)
\* neither includes nor removes.
C8_ThresholdsGateInclusionAndRemoval ==
    [][ (fn = "stepwise" /\ pc = "loop") =>
          /\ Len(selected_vars') > Len(selected_vars) =>
                \E v \in Rem :
                    /\ selected_vars' = Append(selected_vars, v)
                    /\ pvalues[<<Sel \cup {v}, v>>] < threshold_in
                    /\ pvalues[<<Sel \cup {v}, v>>] # 3
                    /\ aic[Sel \cup {v}] < best_aic
          /\ Len(selected_vars') < Len(selected_vars) =>
                \E v \in Sel :
                    /\ selected_vars' = ListRemove(selected_vars, v)
                    /\ v \in best_model
                    /\ pvalues[<<best_model, v>>] > threshold_out
                    /\ pvalues[<<best_model, v>>] # 3
                    /\ aic[Sel \ {v}] < best_aic
      ]_vars

\* C8, witness: a call returned with x1 selected and x2 not, although the AIC
\* is lower with x2 included and lower with x1 removed: both p-values are 0.03.
C8_Witness ==
    /\ fn = "stepwise" /\ pc = "done"
    /\ selected_vars = <<"x1">> /\ remaining_vars = <<"x2">>
    /\ best_model = {"x1"}
    /\ pvalues[<<{"x1", "x2"}, "x2">>] = 3 /\ aic[{"x1", "x2"}] < best_aic
    /\ pvalues[<<{"x1"}, "x1">>] = 3 /\ aic[{}] < best_aic

\* C9: in a round of stepwise_selection_both in which the best inclusion and
\* the best removal both pass their tests, the removal is committed if its AIC
\* drop is strictly larger than the inclusion's, and otherwise, an equal drop
\* included, the inclusion is committed and the removal is not.
C9_LargerDropWinsTieIncludes ==
    [][ (fn = "stepwise" /\ pc = "loop" /\ improved
            /\ selected_vars # <<>> /\ remaining_vars # <<>>) =>
          LET inc == remaining_vars[StepwiseBestInclusion(selected_vars, remaining_vars)]
              rmv == selected_vars[StepwiseBestRemoval(selected_vars)]
              incAic == aic[Sel \cup {inc}]
              rmvAic == aic[Sel \ {rmv}]
              incPasses == incAic < best_aic /\ pvalues[<<Sel \cup {inc}, inc>>] < threshold_in
              rmvPasses == /\ rmvAic < best_aic
                           /\ rmv \in best_model
                           /\ pvalues[<<best_model, rmv>>] > threshold_out
          IN  (incPasses /\ rmvPasses) =>
                  IF best_aic - rmvAic > best_aic - incAic
                  THEN /\ selected_vars' = ListRemove(selected_vars, rmv)
                       /\ best_aic' = rmvAic
                  ELSE /\ selected_vars' = Append(selected_vars, inc)
                       /\ best_aic' = incAic
      ]_vars

\* C9, witness: started from [x1], a round in which removing x1 and including
\* x2 passed their tests with the same AIC drop has included x2.
C9_Witness ==
    /\ fn = "stepwise"
    /\ initial_list = <<"x1">> /\ selected_vars = <<"x1", "x2">>
    /\ aic[{}] = aic[{"x1", "x2"}] /\ aic[{"x1", "x2"}] < aic[{"x1"}]
    /\ pvalues[<<{"x1"}, "x1">>] > threshold_out
    /\ pvalues[<<{"x1", "x2"}, "x2">>] < threshold_in

\* C10: every call of stepwise_selection_both returns, whatever the AIC and
\* p-values of the fits: a round that commits nothing is the last one, and the
\* function returns after it.
C10_StepwiseTerminates ==
    /\ (fn = "stepwise") ~> (pc = "done")
    /\ [][ (fn = "stepwise" /\ pc = "loop") =>
              /\ (improved /\ selected_vars' = selected_vars) => improved' = FALSE
              /\ ~improved => pc' = "done"
         ]_vars

\* C10, witness: a call in which a removed variable became a candidate again
\* and was included has returned.
C10_Witness ==
    /\ fn = "stepwise" /\ pc = "done"
    /\ reincluded # {}

====
